---- MODULE Spec2Model ----
(***************************************************************************)
(* The alignment / snap-guide engine of the note canvas                    *)
(* (src/src/alignment.ts, class AlignmentSystem), and the page's drag      *)
(* handlers that call it (app.ts).  Spec is the engine called with         *)
(* arbitrary arguments, Unparsed the engine on a canvas with a note whose  *)
(* position is no length, Drag the page: presses, pointer-move frames,     *)
(* pointer-up, the snap toggle and the layer visibility toggle, SlowDrag   *)
(* a single note dragged in small steps.  History is the page's documents, *)
(* debounced auto-save and undo history (saveToHistory, undo, redo and the *)
(* handlers that call them), Saving the same with the save timer firing.   *)
(*                                                                         *)
(* Lengths.  calculateSnap halves offsetWidth and offsetHeight, and a note *)
(* that was snapped centre to centre is written back at a half pixel       *)
(* ("103.5px").  Every coordinate of the model is therefore an integer     *)
(* number of HALF pixels: Px(n) is n whole pixels, an odd value is a       *)
(* position ending in .5.  offsetWidth and offsetHeight are whole pixels,  *)
(* as the DOM reports them.                                                *)
(***************************************************************************)
EXTENDS Integers, Sequences, FiniteSets, TLC

Px(n) == 2 * n

\* private snapThreshold: number = 4
snapThreshold == 4

\* A style.left / style.top is written <<v>> for the text "<v/2>px" and <<>>
\* for a text that is no length.  The number parseInt gives is written the
\* same way: <<k>> for k, NaN for not-a-number.
NaN == <<>>

Style(v) == <<v>>

\* Requested positions of the dragged note range over 0 .. MaxCoord pixels.
MaxCoord == 10

\* The note elements on the canvas, named by their id.
Notes == {"n1", "n2", "n3"}

VARIABLES
  notes,        \* id -> [left, top, offsetWidth, offsetHeight]: the elements
  draggedNote,  \* argument draggedNote of the call
  allNotes,     \* argument allNotes of the call, a sequence of elements
  currentX,     \* argument currentX
  currentY,     \* argument currentY
  enabled,      \* this.enabled
  guides,       \* this.guides
  overlay,      \* the lines drawn on the guides canvas (this.ctx)
  last,         \* the last operation run and, for calculateSnap, what it returned
  selectedNotes,   \* the Set selectedNotes, in insertion order
  isDraggingNote,  \* a drag begun by pressing on a note is in progress
  isDraggingGroup, \* a drag begun on the selection handle is in progress
  snapEnabled,     \* the user's snap toggle
  display,         \* id -> style.display of the element ("" or "none")
  documents,       \* id -> [x, y]: documents[currentDocId].notes as saved;
                   \* in History, document id -> the notes saved for it
  currentDocId,    \* the document shown on the canvas
  canvas,          \* in History, the note elements of the canvas, in order
  documentHistory, \* the states recorded for undo
  historyIndex,    \* index into documentHistory, counted from 0; -1 at first
  timeout,         \* the debounced save is pending
  focus,           \* position in canvas of the note being edited, or 0
  startX           \* clientX of the last pointer event of a drag

\* The state of the page around the engine (app.ts).
\* Documents, history and editing (app.ts).
hist == <<currentDocId, canvas, documentHistory, historyIndex, timeout, focus>>

app == <<selectedNotes, isDraggingNote, isDraggingGroup, snapEnabled,
         display, documents, hist>>

page == <<app, startX>>

vars == <<notes, draggedNote, allNotes, currentX, currentY,
          enabled, guides, overlay, last, page>>

args == <<notes, draggedNote, allNotes, currentX, currentY>>

Abs(v) == IF v < 0 THEN -v ELSE v

(***************************************************************************)
(* parseInt on a style value: a px length is truncated toward zero to      *)
(* whole pixels, anything else gives NaN.                                  *)
(***************************************************************************)
ParseInt(s) ==
  IF s = <<>> THEN NaN
  ELSE IF s[1] >= 0 THEN <<2 * (s[1] \div 2)>>
  ELSE <<-(2 * ((-s[1]) \div 2))>>

\* JavaScript  a || 0  on a number: NaN and 0 are falsy.
OrZero(p) == IF p = NaN THEN 0 ELSE p[1]

\* const draggedBounds: NoteBounds = { ... }
draggedBounds(d, x, y) ==
  [id      |-> d,
   left    |-> x,
   top     |-> y,
   right   |-> x + Px(notes[d].offsetWidth),
   bottom  |-> y + Px(notes[d].offsetHeight),
   width   |-> Px(notes[d].offsetWidth),
   height  |-> Px(notes[d].offsetHeight),
   centerX |-> x + notes[d].offsetWidth,
   centerY |-> y + notes[d].offsetHeight]

\* const targetBounds: NoteBounds = { ... }
targetBounds(n) ==
  LET l == OrZero(ParseInt(notes[n].left))
      t == OrZero(ParseInt(notes[n].top))
  IN  [id      |-> n,
       left    |-> l,
       top     |-> t,
       right   |-> l + Px(notes[n].offsetWidth),
       bottom  |-> t + Px(notes[n].offsetHeight),
       width   |-> Px(notes[n].offsetWidth),
       height  |-> Px(notes[n].offsetHeight),
       centerX |-> l + notes[n].offsetWidth,
       centerY |-> t + notes[n].offsetHeight]

Guide(type, position, id) ==
  [type |-> type, position |-> position, strength |-> 1, sourceId |-> id]

\* The locals without the statement this.guides = []: the guides of the call
\* are pushed after those the engine still holds.
Locals_guidesKept(x, y) ==
  [snapX |-> x, snapY |-> y, snappedX |-> FALSE, snappedY |-> FALSE,
   guides |-> guides]

\* The locals of calculateSnap before the loop.
Locals(x, y) ==
  [snapX |-> x, snapY |-> y, snappedX |-> FALSE, snappedY |-> FALSE,
   guides |-> <<>>]

SnapX(acc, to, line, id) ==
  [acc EXCEPT !.snapX = to, !.snappedX = TRUE,
              !.guides = Append(@, Guide("vertical", line, id))]

SnapY(acc, to, line, id) ==
  [acc EXCEPT !.snapY = to, !.snappedY = TRUE,
              !.guides = Append(@, Guide("horizontal", line, id))]

\* CheckVertical with the centre rule tried first.
CheckVertical_centreFirst(acc, db, tb) ==
  IF acc.snappedX THEN acc
  ELSE IF Abs(db.centerX - tb.centerX) <= Px(snapThreshold)
    THEN SnapX(acc, tb.centerX - db.width \div 2, tb.centerX, tb.id)
  ELSE IF Abs(db.left - tb.left) <= Px(snapThreshold)
    THEN SnapX(acc, tb.left, tb.left, tb.id)
  ELSE IF Abs(db.right - tb.right) <= Px(snapThreshold)
    THEN SnapX(acc, tb.right - db.width, tb.right, tb.id)
  ELSE IF Abs(db.left - tb.right) <= Px(snapThreshold)
    THEN SnapX(acc, tb.right, tb.right, tb.id)
  ELSE IF Abs(db.right - tb.left) <= Px(snapThreshold)
    THEN SnapX(acc, tb.left - db.width, tb.left, tb.id)
  ELSE acc

\* CheckVertical that forgets the dragged box's width when its right edge
\* is the one matched.
CheckVertical_widthForgotten(acc, db, tb) ==
  IF acc.snappedX THEN acc
  ELSE IF Abs(db.left - tb.left) <= Px(snapThreshold)
    THEN SnapX(acc, tb.left, tb.left, tb.id)
  ELSE IF Abs(db.right - tb.right) <= Px(snapThreshold)
    THEN SnapX(acc, tb.right, tb.right, tb.id)
  ELSE IF Abs(db.left - tb.right) <= Px(snapThreshold)
    THEN SnapX(acc, tb.right, tb.right, tb.id)
  ELSE IF Abs(db.right - tb.left) <= Px(snapThreshold)
    THEN SnapX(acc, tb.left, tb.left, tb.id)
  ELSE IF Abs(db.centerX - tb.centerX) <= Px(snapThreshold)
    THEN SnapX(acc, tb.centerX - db.width \div 2, tb.centerX, tb.id)
  ELSE acc

\* CheckVertical comparing with < instead of <=.
CheckVertical_strict(acc, db, tb) ==
  IF acc.snappedX THEN acc
  ELSE IF Abs(db.left - tb.left) < Px(snapThreshold)
    THEN SnapX(acc, tb.left, tb.left, tb.id)
  ELSE IF Abs(db.right - tb.right) < Px(snapThreshold)
    THEN SnapX(acc, tb.right - db.width, tb.right, tb.id)
  ELSE IF Abs(db.left - tb.right) < Px(snapThreshold)
    THEN SnapX(acc, tb.right, tb.right, tb.id)
  ELSE IF Abs(db.right - tb.left) < Px(snapThreshold)
    THEN SnapX(acc, tb.left - db.width, tb.left, tb.id)
  ELSE IF Abs(db.centerX - tb.centerX) < Px(snapThreshold)
    THEN SnapX(acc, tb.centerX - db.width \div 2, tb.centerX, tb.id)
  ELSE acc

\* CheckVertical whose left-left rule reaches one pixel further.
CheckVertical_wideLeft(acc, db, tb) ==
  IF acc.snappedX THEN acc
  ELSE IF Abs(db.left - tb.left) <= Px(snapThreshold + 1)
    THEN SnapX(acc, tb.left, tb.left, tb.id)
  ELSE IF Abs(db.right - tb.right) <= Px(snapThreshold)
    THEN SnapX(acc, tb.right - db.width, tb.right, tb.id)
  ELSE IF Abs(db.left - tb.right) <= Px(snapThreshold)
    THEN SnapX(acc, tb.right, tb.right, tb.id)
  ELSE IF Abs(db.right - tb.left) <= Px(snapThreshold)
    THEN SnapX(acc, tb.left - db.width, tb.left, tb.id)
  ELSE IF Abs(db.centerX - tb.centerX) <= Px(snapThreshold)
    THEN SnapX(acc, tb.centerX - db.width \div 2, tb.centerX, tb.id)
  ELSE acc

\* CheckVertical without the test of snappedX around it.
CheckVertical_unguarded(acc, db, tb) ==
  IF Abs(db.left - tb.left) <= Px(snapThreshold)
    THEN SnapX(acc, tb.left, tb.left, tb.id)
  ELSE IF Abs(db.right - tb.right) <= Px(snapThreshold)
    THEN SnapX(acc, tb.right - db.width, tb.right, tb.id)
  ELSE IF Abs(db.left - tb.right) <= Px(snapThreshold)
    THEN SnapX(acc, tb.right, tb.right, tb.id)
  ELSE IF Abs(db.right - tb.left) <= Px(snapThreshold)
    THEN SnapX(acc, tb.left - db.width, tb.left, tb.id)
  ELSE IF Abs(db.centerX - tb.centerX) <= Px(snapThreshold)
    THEN SnapX(acc, tb.centerX - db.width \div 2, tb.centerX, tb.id)
  ELSE acc

\* if (!snappedX) { left-left, right-right, left-right, right-left, centre }
CheckVertical(acc, db, tb) ==
  IF acc.snappedX THEN acc
  ELSE IF Abs(db.left - tb.left) <= Px(snapThreshold)
    THEN SnapX(acc, tb.left, tb.left, tb.id)
  ELSE IF Abs(db.right - tb.right) <= Px(snapThreshold)
    THEN SnapX(acc, tb.right - db.width, tb.right, tb.id)
  ELSE IF Abs(db.left - tb.right) <= Px(snapThreshold)
    THEN SnapX(acc, tb.right, tb.right, tb.id)
  ELSE IF Abs(db.right - tb.left) <= Px(snapThreshold)
    THEN SnapX(acc, tb.left - db.width, tb.left, tb.id)
  ELSE IF Abs(db.centerX - tb.centerX) <= Px(snapThreshold)
    THEN SnapX(acc, tb.centerX - db.width \div 2, tb.centerX, tb.id)
  ELSE acc

\* if (!snappedY) { top-top, bottom-bottom, top-bottom, bottom-top, centre }
CheckHorizontal(acc, db, tb) ==
  IF acc.snappedY THEN acc
  ELSE IF Abs(db.top - tb.top) <= Px(snapThreshold)
    THEN SnapY(acc, tb.top, tb.top, tb.id)
  ELSE IF Abs(db.bottom - tb.bottom) <= Px(snapThreshold)
    THEN SnapY(acc, tb.bottom - db.height, tb.bottom, tb.id)
  ELSE IF Abs(db.top - tb.bottom) <= Px(snapThreshold)
    THEN SnapY(acc, tb.bottom, tb.bottom, tb.id)
  ELSE IF Abs(db.bottom - tb.top) <= Px(snapThreshold)
    THEN SnapY(acc, tb.top - db.height, tb.top, tb.id)
  ELSE IF Abs(db.centerY - tb.centerY) <= Px(snapThreshold)
    THEN SnapY(acc, tb.centerY - db.height \div 2, tb.centerY, tb.id)
  ELSE acc

\* Visit with the horizontal rules chained to the vertical ones by an else.
Visit_exclusive(acc, d, db, n) ==
  IF n = d THEN acc
  ELSE IF CheckVertical(acc, db, targetBounds(n)) # acc
    THEN CheckVertical(acc, db, targetBounds(n))
  ELSE CheckHorizontal(acc, db, targetBounds(n))

\* The body of allNotes.forEach(note => { ... }) for one note.
Visit(acc, d, db, n) ==
  IF n = d THEN acc
  ELSE CheckHorizontal(CheckVertical(acc, db, targetBounds(n)),
                       db, targetBounds(n))

RECURSIVE ForEach_backwards(_, _, _, _)
\* The loop run from the last note of the list to the first.
ForEach_backwards(acc, d, db, list) ==
  IF list = <<>> THEN acc
  ELSE ForEach_backwards(Visit(acc, d, db, list[Len(list)]), d, db,
                         SubSeq(list, 1, Len(list) - 1))

RECURSIVE ForEach(_, _, _, _)
\* allNotes.forEach(note => { ... })
ForEach(acc, d, db, list) ==
  IF list = <<>> THEN acc
  ELSE ForEach(Visit(acc, d, db, Head(list)), d, db, Tail(list))

\* The SnapResult of an enabled engine.
Scan(d, list, x, y) ==
  LET acc == ForEach(Locals(x, y), d, draggedBounds(d, x, y), list)
  IN  [snapped |-> acc.snappedX \/ acc.snappedY,
       deltaX  |-> acc.snapX - x,
       deltaY  |-> acc.snapY - y,
       guides  |-> acc.guides]

NoSnap == [snapped |-> FALSE, deltaX |-> 0, deltaY |-> 0, guides |-> <<>>]

\* calculateSnap without its first statement, the test of this.enabled.
calculateSnap_unguarded(d, list, x, y) == Scan(d, list, x, y)

\* What calculateSnap returns.
calculateSnap(d, list, x, y) ==
  IF ~enabled THEN NoSnap ELSE Scan(d, list, x, y)

\* renderGuides that draws the vertical guides only.
renderGuides_verticalOnly(gs) ==
  {[type |-> gs[i].type, position |-> gs[i].position] :
     i \in {j \in 1..Len(gs) : gs[j].type = "vertical"}}

\* renderGuides(): clearRect, then one line per guide.
renderGuides(gs) ==
  {[type |-> gs[i].type, position |-> gs[i].position] : i \in 1..Len(gs)}

(***************************************************************************)
(* Operations of the engine.                                               *)
(***************************************************************************)
CalculateSnap ==
  LET r == calculateSnap(draggedNote, allNotes, currentX, currentY)
  IN  /\ last' = [op |-> "calculateSnap", result |-> r]
      /\ guides' = IF enabled THEN r.guides ELSE guides
      /\ overlay' = IF enabled /\ r.snapped THEN renderGuides(r.guides)
                    ELSE overlay
      /\ UNCHANGED <<args, enabled, page>>

ClearGuides ==
  /\ guides' = <<>>
  /\ overlay' = {}
  /\ last' = [op |-> "clearGuides", result |-> NoSnap]
  /\ UNCHANGED <<args, enabled, page>>

SetEnabled(b) ==
  /\ enabled' = b
  /\ guides' = IF b THEN guides ELSE <<>>
  /\ overlay' = IF b THEN overlay ELSE {}
  /\ last' = [op |-> "setEnabled", result |-> NoSnap]
  /\ UNCHANGED <<args, page>>

\* window 'resize': resizeCanvas() sets canvas.width and canvas.height, which
\* blanks the canvas; this.guides is not touched.
ResizeCanvas ==
  /\ overlay' = {}
  /\ last' = [op |-> "resize", result |-> NoSnap]
  /\ UNCHANGED <<args, enabled, guides, page>>

(***************************************************************************)
(* The canvas the calls are made on, and the calls made.                   *)
(***************************************************************************)
RECURSIVE Lists(_)
\* Every sequence of distinct elements of S.
Lists(S) ==
  {<<>>} \cup UNION {{<<n>> \o l : l \in Lists(S \ {n})} : n \in S}

\* Rendered sizes of the three notes, in whole pixels.
OffsetWidth ==
  [n \in Notes |-> IF n = "n1" THEN 13 ELSE IF n = "n2" THEN 2 ELSE 13]
OffsetHeight ==
  [n \in Notes |-> IF n = "n1" THEN 6 ELSE IF n = "n2" THEN 13 ELSE 2]

\* Where the notes may stand.  n2 stands at left: 3.5px, where an earlier
\* centre snap has put it.
Lefts ==
  [n \in Notes |-> IF n = "n1" THEN {Style(Px(11))}
                   ELSE IF n = "n2" THEN {Style(Px(3) + 1)}
                   ELSE {Style(Px(1))}]
Tops ==
  [n \in Notes |-> IF n = "n1" THEN {Style(Px(12))}
                   ELSE IF n = "n2" THEN {Style(Px(9))}
                   ELSE {Style(Px(14))}]

\* What saveCurrentDocumentImmediate stores of an element: x and y.
NoteData(n) ==
  [x |-> ParseInt(notes[n].left), y |-> ParseInt(notes[n].top)]

\* The page before any gesture: nothing selected, no drag, snapping on, every
\* note shown and saved where it stands.
AppInit ==
  /\ selectedNotes = <<>>
  /\ isDraggingNote = FALSE
  /\ isDraggingGroup = FALSE
  /\ snapEnabled = TRUE
  /\ display = [n \in Notes |-> ""]
  /\ documents = [n \in Notes |-> NoteData(n)]
  /\ currentDocId = "d1"
  /\ canvas = <<>>
  /\ documentHistory = <<>>
  /\ historyIndex = -1
  /\ timeout = FALSE
  /\ focus = 0
  /\ startX = 0

Init ==
  /\ \E l \in [Notes -> UNION {Lefts[n] : n \in Notes}],
        t \in [Notes -> UNION {Tops[n] : n \in Notes}] :
       /\ \A n \in Notes : l[n] \in Lefts[n] /\ t[n] \in Tops[n]
       /\ notes = [n \in Notes |->
                     [left |-> l[n], top |-> t[n],
                      offsetWidth |-> OffsetWidth[n],
                      offsetHeight |-> OffsetHeight[n]]]
  /\ draggedNote \in Notes
  /\ allNotes \in Lists(Notes)
  /\ currentX \in {Px(x) : x \in 0..MaxCoord}
  /\ currentY \in {Px(y) : y \in 0..MaxCoord}
  /\ enabled = TRUE
  /\ guides = <<>>
  /\ overlay = {}
  /\ last = [op |-> "new", result |-> NoSnap]
  /\ AppInit

\* A pointer-move frame asks for a position one pixel away, or the same one.
Steps == {-1, 0, 1}

\* The next frame of the drag: the caller asks for another position
\* (currentX = parseInt(style.left) + dx, currentY likewise).
NextFrame(dx, dy) ==
  /\ currentX + Px(dx) \in {Px(x) : x \in 0..MaxCoord}
  /\ currentY + Px(dy) \in {Px(y) : y \in 0..MaxCoord}
  /\ currentX' = currentX + Px(dx)
  /\ currentY' = currentY + Px(dy)
  /\ last' = [op |-> "frame", result |-> NoSnap]
  /\ UNCHANGED <<notes, draggedNote, allNotes, enabled, guides, overlay, page>>

Next ==
  \/ \E dx \in Steps, dy \in Steps : NextFrame(dx, dy)
  \/ CalculateSnap
  \/ ClearGuides
  \/ ResizeCanvas
  \/ \E b \in BOOLEAN : SetEnabled(b)

Spec == Init /\ [][Next]_vars

(***************************************************************************)
(* Vocabulary of the properties.  The call looked at is the last one:      *)
(* calculateSnap(draggedNote, allNotes, currentX, currentY), which         *)
(* returned last.result.  A neighbour's coordinates are those of its       *)
(* NoteBounds, as calculateSnap reads them.                                *)
(***************************************************************************)
Called == last.op = "calculateSnap"

\* In an action formula: this step is a call of calculateSnap.
IsCall == last'.op = "calculateSnap"

Threshold == Px(snapThreshold)

DB == draggedBounds(draggedNote, currentX, currentY)

\* The positions of allNotes that hold a note other than the dragged one.
Candidates == {i \in 1..Len(allNotes) : allNotes[i] # draggedNote}

\* The five differences of an axis, in the order the rules are listed:
\* start-start, end-end, start-end, end-start, centre-centre.
XDiffs(db, tb) ==
  <<Abs(db.left - tb.left), Abs(db.right - tb.right),
    Abs(db.left - tb.right), Abs(db.right - tb.left),
    Abs(db.centerX - tb.centerX)>>
YDiffs(db, tb) ==
  <<Abs(db.top - tb.top), Abs(db.bottom - tb.bottom),
    Abs(db.top - tb.bottom), Abs(db.bottom - tb.top),
    Abs(db.centerY - tb.centerY)>>

\* The coordinate of the dragged box that a rule matches, and the
\* neighbour's coordinate it is matched with.
XOwn(db) == <<db.left, db.right, db.left, db.right, db.centerX>>
YOwn(db) == <<db.top, db.bottom, db.top, db.bottom, db.centerY>>
XLine(tb) == <<tb.left, tb.right, tb.right, tb.left, tb.centerX>>
YLine(tb) == <<tb.top, tb.bottom, tb.bottom, tb.top, tb.centerY>>

Rules == 1..5
Min(S) == CHOOSE m \in S : \A k \in S : m <= k

\* The rules of candidate position i that are within the threshold.
XWithin(i) == {k \in Rules : XDiffs(DB, targetBounds(allNotes[i]))[k] <= Threshold}
YWithin(i) == {k \in Rules : YDiffs(DB, targetBounds(allNotes[i]))[k] <= Threshold}

\* The candidate positions with some rule within the threshold.
XMatching == {i \in Candidates : XWithin(i) # {}}
YMatching == {i \in Candidates : YWithin(i) # {}}

\* The guides of a result, per axis.
Vertical(r) == SelectSeq(r.guides, LAMBDA g : g.type = "vertical")
Horizontal(r) == SelectSeq(r.guides, LAMBDA g : g.type = "horizontal")

\* What a result says about one axis.
XPart(r) == <<r.deltaX, Vertical(r)>>
YPart(r) == <<r.deltaY, Horizontal(r)>>

\* The correction that puts the dragged box's coordinate of rule k on the
\* coordinate of the neighbour at position i.
XMove(i, k) == XLine(targetBounds(allNotes[i]))[k] - XOwn(DB)[k]
YMove(i, k) == YLine(targetBounds(allNotes[i]))[k] - YOwn(DB)[k]

\* The smallest difference of candidate position i on an axis.
XNearest(i) == Min({XDiffs(DB, targetBounds(allNotes[i]))[k] : k \in Rules})
YNearest(i) == Min({YDiffs(DB, targetBounds(allNotes[i]))[k] : k \in Rules})

\* allNotes with the notes at positions i and j exchanged.
Swapped(i, j) ==
  [k \in 1..Len(allNotes) |->
     IF k = i THEN allNotes[j] ELSE IF k = j THEN allNotes[i] ELSE allNotes[k]]

(***************************************************************************)
(* C1.  When this.enabled is false, or when allNotes holds no note other   *)
(* than the dragged one, calculateSnap returns snapped = false,            *)
(* deltaX = 0, deltaY = 0 and no guides, whatever position is asked for,   *)
(* and the call leaves the overlay as it was: it draws nothing.            *)
(***************************************************************************)
C1_NoOpReturned ==
  (Called /\ (~enabled \/ Candidates = {})) =>
     /\ last.result.snapped = FALSE
     /\ last.result.deltaX = 0
     /\ last.result.deltaY = 0
     /\ last.result.guides = <<>>

C1_NothingDrawn ==
  (IsCall /\ (~enabled \/ Candidates = {})) => overlay' = overlay

C1_DisabledOrNoCandidates == [](C1_NoOpReturned) /\ [][C1_NothingDrawn]_vars

\* A disabled engine was asked about a position where a neighbour's left
\* edge is exactly the dragged box's left edge.
C1_Witness ==
  /\ Called
  /\ ~enabled
  /\ \E i \in Candidates : targetBounds(allNotes[i]).left = currentX
  /\ last.result = NoSnap
  /\ overlay = {}

(***************************************************************************)
(* C2.  On each axis, when several candidates are within snapThreshold,    *)
(* the match reported (guide source and delta) is that of the candidate    *)
(* that comes first in allNotes, also when a later one is closer; with     *)
(* the first and a later such candidate exchanged in allNotes, the later   *)
(* one is the one reported.                                                *)
(***************************************************************************)
C2_FirstCandidateWins ==
  (Called /\ enabled) =>
     /\ XMatching # {} =>
          LET i == Min(XMatching)
              v == Vertical(last.result)
          IN  /\ Len(v) = 1
              /\ v[1].sourceId = allNotes[i]
              /\ last.result.deltaX \in {XMove(i, k) : k \in XWithin(i)}
              /\ \A j \in XMatching \ {i} :
                   LET w == Vertical(Scan(draggedNote, Swapped(i, j),
                                          currentX, currentY))
                   IN  Len(w) = 1 /\ w[1].sourceId = allNotes[j]
     /\ YMatching # {} =>
          LET i == Min(YMatching)
              h == Horizontal(last.result)
          IN  /\ Len(h) = 1
              /\ h[1].sourceId = allNotes[i]
              /\ last.result.deltaY \in {YMove(i, k) : k \in YWithin(i)}
              /\ \A j \in YMatching \ {i} :
                   LET w == Horizontal(Scan(draggedNote, Swapped(i, j),
                                            currentX, currentY))
                   IN  Len(w) = 1 /\ w[1].sourceId = allNotes[j]

\* Two candidates are within the threshold on x, the later one strictly
\* closer and asking for another correction, and the first one is reported.
C2_Witness ==
  /\ Called
  /\ enabled
  /\ \E i, j \in XMatching :
       /\ i = Min(XMatching)
       /\ i < j
       /\ XNearest(j) < XNearest(i)
       /\ last.result.deltaX \notin {XMove(j, k) : k \in XWithin(j)}
       /\ Vertical(last.result)[1].sourceId = allNotes[i]

(***************************************************************************)
(* C3.  Within the candidate that is reported, the rules are tried in the  *)
(* order left-left, right-right, left-right, right-left, centre-centre     *)
(* (top-top, bottom-bottom, top-bottom, bottom-top, centre-centre), and    *)
(* the first one within snapThreshold gives the delta and the guide: a     *)
(* later rule is never taken when an earlier one qualifies.                *)
(***************************************************************************)
C3_FirstRuleWins ==
  (Called /\ enabled) =>
     /\ \A n \in 1..Len(Vertical(last.result)) :
          \E i \in Candidates :
            /\ allNotes[i] = Vertical(last.result)[n].sourceId
            /\ XWithin(i) # {}
            /\ last.result.deltaX = XMove(i, Min(XWithin(i)))
            /\ Vertical(last.result)[n].position =
                 XLine(targetBounds(allNotes[i]))[Min(XWithin(i))]
     /\ \A n \in 1..Len(Horizontal(last.result)) :
          \E i \in Candidates :
            /\ allNotes[i] = Horizontal(last.result)[n].sourceId
            /\ YWithin(i) # {}
            /\ last.result.deltaY = YMove(i, Min(YWithin(i)))
            /\ Horizontal(last.result)[n].position =
                 YLine(targetBounds(allNotes[i]))[Min(YWithin(i))]

\* On both axes the reported candidate qualifies on its centre rule and on
\* an earlier rule that asks for another correction.
C3_Witness ==
  /\ Called
  /\ enabled
  /\ \E i \in Candidates :
       /\ Vertical(last.result) # <<>>
       /\ allNotes[i] = Vertical(last.result)[1].sourceId
       /\ 5 \in XWithin(i)
       /\ Min(XWithin(i)) < 5
       /\ XMove(i, 5) # XMove(i, Min(XWithin(i)))
  /\ \E i \in Candidates :
       /\ Horizontal(last.result) # <<>>
       /\ allNotes[i] = Horizontal(last.result)[1].sourceId
       /\ 5 \in YWithin(i)
       /\ Min(YWithin(i)) < 5
       /\ YMove(i, 5) # YMove(i, Min(YWithin(i)))

(***************************************************************************)
(* C4.  For every guide of the result: moved by the returned delta, the    *)
(* dragged box has the coordinate of the matched rule (left, right or      *)
(* centre; top, bottom or centre) exactly on the neighbour's coordinate    *)
(* of that rule; that coordinate is the guide's position and the           *)
(* neighbour is its source.                                                *)
(***************************************************************************)
Landed ==
  draggedBounds(draggedNote, currentX + last.result.deltaX,
                currentY + last.result.deltaY)

C5_MatchIffWithinThreshold ==
  (Called /\ enabled) =>
     /\ (Vertical(last.result) # <<>>) <=> (XMatching # {})
     /\ (Horizontal(last.result) # <<>>) <=> (YMatching # {})

\* A vertical match is reported and no candidate is closer than exactly
\* snapThreshold on x; no candidate is within the threshold on y.
C5_Witness ==
  /\ Called
  /\ enabled
  /\ Vertical(last.result) # <<>>
  /\ \A i \in Candidates : XNearest(i) >= Threshold
  /\ Horizontal(last.result) = <<>>
  /\ Candidates # {}

(***************************************************************************)
(* C6.  The claim as made: when the left edges of the dragged box and of   *)
(* the one neighbour in allNotes differ by exactly snapThreshold + 1       *)
(* pixels, no vertical match is reported.                                  *)
(***************************************************************************)
C6_AsClaimed ==
  (Called /\ enabled) =>
     \A i \in Candidates :
       (/\ Candidates = {i}
        /\ XDiffs(DB, targetBounds(allNotes[i]))[1] = Px(snapThreshold + 1))
          => Vertical(last.result) = <<>>

(***************************************************************************)
(* C6, amended.  When the left edges of the dragged box and of a           *)
(* neighbour differ by exactly snapThreshold + 1 pixels, the left-left     *)
(* rule of that neighbour does not match: no vertical match is reported    *)
(* unless another of its four x rules, or a rule of another candidate, is  *)
(* within snapThreshold, and a match reported for that neighbour is the    *)
(* one of its first such other rule.                                       *)
(***************************************************************************)
C6_LeftLeftOutOfReach ==
  (Called /\ enabled) =>
     \A i \in Candidates :
       XDiffs(DB, targetBounds(allNotes[i]))[1] = Px(snapThreshold + 1) =>
         /\ 1 \notin XWithin(i)
         /\ (\A j \in Candidates : XWithin(j) = {})
              => (Vertical(last.result) = <<>> /\ last.result.deltaX = 0)
         /\ \A n \in 1..Len(Vertical(last.result)) :
              Vertical(last.result)[n].sourceId = allNotes[i] =>
                /\ XWithin(i) # {}
                /\ Min(XWithin(i)) > 1
                /\ last.result.deltaX = XMove(i, Min(XWithin(i)))

\* The left edges are snapThreshold + 1 apart, nothing else is within the
\* threshold on x, and no vertical match is reported.
C6_Witness ==
  /\ Called
  /\ enabled
  /\ \E i \in Candidates :
       XDiffs(DB, targetBounds(allNotes[i]))[1] = Px(snapThreshold + 1)
  /\ \A j \in Candidates : XWithin(j) = {}
  /\ Vertical(last.result) = <<>>

(***************************************************************************)
(* C7.  The claim as made: when the dragged box's left edge equals the     *)
(* left edge of a neighbour in allNotes, deltaX = 0 and a vertical match   *)
(* is reported, whatever else allNotes holds.                              *)
(***************************************************************************)
C7_AsClaimed ==
  (/\ Called
   /\ enabled
   /\ \E i \in Candidates : targetBounds(allNotes[i]).left = currentX)
     => (last.result.deltaX = 0 /\ Vertical(last.result) # <<>>)

(***************************************************************************)
(* C7, amended.  When the dragged box's left edge equals the left edge of  *)
(* a neighbour in allNotes, a vertical match is reported; deltaX = 0, with *)
(* the guide on that edge, when that neighbour is the first note of        *)
(* allNotes within snapThreshold on x (an earlier one that is within the   *)
(* threshold decides the delta instead).                                   *)
(***************************************************************************)
C7_AlignedLeftEdge ==
  (/\ Called
   /\ enabled
   /\ \E i \in Candidates : targetBounds(allNotes[i]).left = currentX)
     => /\ Vertical(last.result) # <<>>
        /\ XMatching # {}
        /\ targetBounds(allNotes[Min(XMatching)]).left = currentX =>
             /\ last.result.deltaX = 0
             /\ Vertical(last.result) =
                  <<Guide("vertical", currentX, allNotes[Min(XMatching)])>>

\* The neighbour with the equal left edge comes after a note that is not
\* within the threshold, and is the one reported, with deltaX = 0.
C7_Witness ==
  /\ Called
  /\ enabled
  /\ XMatching # {}
  /\ Min(XMatching) > Min(Candidates)
  /\ targetBounds(allNotes[Min(XMatching)]).left = currentX
  /\ last.result.deltaX = 0
  /\ Len(Vertical(last.result)) = 1

(***************************************************************************)
(* C8.  The two axes are searched independently: what is reported for x    *)
(* (deltaX and the vertical guide) is the same whatever currentY is asked  *)
(* for, what is reported for y the same whatever currentX, and the result  *)
(* holds one guide per axis that has a candidate within snapThreshold, so  *)
(* two guides when both have one, also from two different neighbours.      *)
(***************************************************************************)
Coords == {Px(c) : c \in 0..MaxCoord}

C8_AxesIndependent ==
  (Called /\ enabled) =>
     /\ \A y \in Coords :
          XPart(Scan(draggedNote, allNotes, currentX, y)) = XPart(last.result)
     /\ \A x \in Coords :
          YPart(Scan(draggedNote, allNotes, x, currentY)) = YPart(last.result)
     /\ Len(last.result.guides) =
          (IF XMatching # {} THEN 1 ELSE 0) + (IF YMatching # {} THEN 1 ELSE 0)

\* One call reports a vertical match from one neighbour and a horizontal
\* match from another, both with a non-zero delta.
C8_Witness ==
  /\ Called
  /\ enabled
  /\ Len(last.result.guides) = 2
  /\ Len(Vertical(last.result)) = 1
  /\ Len(Horizontal(last.result)) = 1
  /\ Vertical(last.result)[1].sourceId # Horizontal(last.result)[1].sourceId
  /\ last.result.deltaX # 0
  /\ last.result.deltaY # 0

(***************************************************************************)
(* C9.  A result holds at most one vertical and at most one horizontal     *)
(* guide, one for each axis that matched and none for the other; snapped   *)
(* is true exactly when guides is not empty; the delta of an axis without  *)
(* a match is 0.                                                           *)
(***************************************************************************)
C9_ResultShape ==
  Called =>
     /\ Len(Vertical(last.result)) =
          (IF enabled /\ XMatching # {} THEN 1 ELSE 0)
     /\ Len(Horizontal(last.result)) =
          (IF enabled /\ YMatching # {} THEN 1 ELSE 0)
     /\ Len(last.result.guides) =
          Len(Vertical(last.result)) + Len(Horizontal(last.result))
     /\ last.result.snapped <=> (last.result.guides # <<>>)
     /\ Vertical(last.result) = <<>> => last.result.deltaX = 0
     /\ Horizontal(last.result) = <<>> => last.result.deltaY = 0

\* Two candidates are within the threshold on x and none on y: the result
\* holds the one vertical guide and deltaY = 0.
C9_Witness ==
  /\ Called
  /\ enabled
  /\ Cardinality(XMatching) = 2
  /\ YMatching = {}
  /\ Len(last.result.guides) = 1
  /\ last.result.snapped
  /\ last.result.deltaX # 0
  /\ last.result.deltaY = 0

Lines(gs) == {<<gs[i].type, gs[i].position>> : i \in 1..Len(gs)}

Drawn == {<<l.type, l.position>> : l \in overlay}

C10_EffectOfCall ==
  IsCall =>
     /\ enabled' = enabled
     /\ args' = args
     /\ ~enabled => (guides' = guides /\ overlay' = overlay)
     /\ enabled =>
          /\ guides' = last'.result.guides
          /\ last'.result.snapped => Drawn' = Lines(last'.result.guides)
          /\ ~last'.result.snapped => overlay' = overlay

DomOrder == <<"n1", "n2", "n3">>

\* Where the notes of the loaded document stand (loadDocument writes
\* noteData.x + 'px'), in whole pixels.
LoadedAt ==
  [n \in Notes |-> IF n = "n1" THEN [x |-> 30, y |-> 12]
                   ELSE IF n = "n2" THEN [x |-> 16, y |-> 25]
                   ELSE [x |-> 1, y |-> 14]]

\* Pointer deltas of one frame, in whole pixels: the pointer goes 3 px to the
\* left or 10 px to the right; vertically the notes move by snap deltas only.
FrameDx == {-3, 10}
FrameDy == {0}

\* Notes stay within MaxPos pixels of the canvas origin.
MaxPos == 40

\* Pointer-move frames looked at, over all drags; no gesture is begun once
\* they are used up.
MaxFrames == 2

\* The layers whose eye button is used.
Hideable == {"n1"}

InSet(n, seq) == \E i \in 1..Len(seq) : seq[i] = n

\* Set.prototype.add: a new element goes last, one already in stays put.
SetAdd(seq, n) == IF InSet(n, seq) THEN seq ELSE Append(seq, n)

\* const currentDraggedNote = isDraggingNote ? draggedNote
\*                                           : Array.from(selectedNotes)[0]
currentDraggedNote ==
  IF isDraggingNote THEN draggedNote
  ELSE IF selectedNotes = <<>> THEN "undefined"
  ELSE selectedNotes[1]

\* note.style.left = (parseInt(note.style.left) + d) + 'px', for the selected
\* notes; d is in half pixels.
MoveBy(n, ddx, ddy) ==
  [notes[n] EXCEPT !.left = Style(ParseInt(@)[1] + ddx),
                   !.top  = Style(ParseInt(@)[1] + ddy)]

MoveSelected(ddx, ddy) ==
  [n \in Notes |-> IF InSet(n, selectedNotes) THEN MoveBy(n, ddx, ddy)
                   ELSE notes[n]]

\* The frames looked at leave every note within MaxPos pixels of the origin.
OnCanvas(ns) ==
  \A n \in Notes :
    /\ ns[n].left[1] \in 0..Px(MaxPos)
    /\ ns[n].top[1] \in 0..Px(MaxPos)

DragInit ==
  /\ notes = [n \in Notes |->
                [left |-> Style(Px(LoadedAt[n].x)),
                 top |-> Style(Px(LoadedAt[n].y)),
                 offsetWidth |-> OffsetWidth[n],
                 offsetHeight |-> OffsetHeight[n]]]
  /\ draggedNote = "null"
  /\ allNotes = DomOrder
  /\ currentX = 0
  /\ currentY = 0
  /\ enabled = TRUE
  /\ guides = <<>>
  /\ overlay = {}
  /\ last = [op |-> "load", result |-> NoSnap, frames |-> 0, held |-> {}]
  /\ AppInit

Dragging == isDraggingNote \/ isDraggingGroup

\* setupNote 'mousedown' in move mode.  last.held is the selection the press
\* found, when the note pressed was part of it.  The pointer is pressed on
\* the left edge of the note (e.clientX is the note's left, the canvas being
\* at the left of the window), so that startX is, all through the drag, the
\* left the note would have without snapping.
NoteMouseDown(n, shiftKey) ==
  /\ ~Dragging
  /\ last.frames < MaxFrames
  /\ display[n] = ""
  /\ selectedNotes' = SetAdd(IF shiftKey THEN selectedNotes ELSE <<>>, n)
  /\ isDraggingNote' = TRUE
  /\ draggedNote' = n
  /\ startX' = ParseInt(notes[n].left)[1]
  /\ last' = [op |-> "mousedown", result |-> NoSnap, frames |-> last.frames,
              held |-> IF InSet(n, selectedNotes)
                       THEN {selectedNotes[i] : i \in 1..Len(selectedNotes)}
                       ELSE {}]
  /\ UNCHANGED <<notes, allNotes, currentX, currentY, enabled, guides, overlay,
                 isDraggingGroup, snapEnabled, display, documents, hist>>

\* dragHandle.style.left = (maxX - 6) + 'px', maxX the largest right edge of
\* the selected notes.
HandleLeft ==
  LET rights == {ParseInt(notes[selectedNotes[i]].left)[1]
                   + Px(notes[selectedNotes[i]].offsetWidth) :
                 i \in 1..Len(selectedNotes)}
  IN  (CHOOSE m \in rights : \A k \in rights : k <= m) - Px(6)

\* dragHandle.onmousedown; updateSelection shows the handle while more than
\* one note is selected.  The pointer is pressed on the handle's left edge.
HandleMouseDown ==
  /\ ~Dragging
  /\ last.frames < MaxFrames
  /\ Len(selectedNotes) > 1
  /\ isDraggingGroup' = TRUE
  /\ startX' = HandleLeft
  /\ last' = [op |-> "mousedown", result |-> NoSnap, frames |-> last.frames,
              held |-> last.held]
  /\ UNCHANGED <<notes, draggedNote, allNotes, currentX, currentY, enabled,
                 guides, overlay, selectedNotes, isDraggingNote, snapEnabled,
                 display, documents, hist>>

\* document 'mousemove' while a drag is in progress.
OnMouseMove(dx, dy, altKey) ==
  /\ Dragging
  /\ startX' = startX + Px(dx)
  /\ LET cdn == currentDraggedNote
     IN  IF snapEnabled /\ ~altKey /\ cdn \in Notes
         THEN LET x == ParseInt(notes[cdn].left)[1] + Px(dx)
                  y == ParseInt(notes[cdn].top)[1] + Px(dy)
                  r == calculateSnap(cdn, DomOrder, x, y)
              IN  /\ notes' = MoveSelected(Px(dx) + r.deltaX, Px(dy) + r.deltaY)
                  /\ currentX' = x
                  /\ currentY' = y
                  /\ guides' = IF enabled THEN r.guides ELSE guides
                  /\ overlay' = IF enabled /\ r.snapped
                                THEN renderGuides(r.guides) ELSE overlay
                  /\ last' = [op |-> "mousemove", result |-> r,
                              frames |-> last.frames + 1, held |-> last.held,
                              called |-> TRUE,
                              altKey |-> altKey, dragged |-> cdn,
                              dx |-> dx, dy |-> dy]
         ELSE /\ notes' = MoveSelected(Px(dx), Px(dy))
              /\ guides' = IF altKey \/ ~snapEnabled THEN <<>> ELSE guides
              /\ overlay' = IF altKey \/ ~snapEnabled THEN {} ELSE overlay
              /\ last' = [op |-> "mousemove", result |-> NoSnap,
                          frames |-> last.frames + 1, held |-> last.held,
                              called |-> FALSE,
                          altKey |-> altKey, dragged |-> cdn,
                          dx |-> dx, dy |-> dy]
              /\ UNCHANGED <<currentX, currentY>>
  /\ OnCanvas(notes')
  /\ UNCHANGED <<draggedNote, allNotes, enabled, app>>

MouseMove(dx, dy, altKey) ==
  /\ last.frames < MaxFrames
  /\ OnMouseMove(dx, dy, altKey)

\* The 'mouseup' handler without its calls of clearGuides().
MouseUp_guidesKept ==
  /\ Dragging
  /\ isDraggingGroup' = FALSE
  /\ isDraggingNote' = FALSE
  /\ draggedNote' = IF isDraggingNote THEN "null" ELSE draggedNote
  /\ documents' = [n \in Notes |-> NoteData(n)]
  /\ last' = [op |-> "mouseup", result |-> NoSnap, frames |-> last.frames,
              held |-> {}, shown |-> Cardinality(overlay)]
  /\ UNCHANGED <<notes, allNotes, currentX, currentY, enabled, selectedNotes,
                 snapEnabled, display, guides, overlay, hist, startX>>

\* document 'mouseup': each kind of drag in progress is ended, the document
\* is saved at once and the guides are cleared.  last.shown is the number of
\* lines the overlay showed when the button was released.
MouseUp ==
  /\ Dragging
  /\ isDraggingGroup' = FALSE
  /\ isDraggingNote' = FALSE
  /\ draggedNote' = IF isDraggingNote THEN "null" ELSE draggedNote
  /\ documents' = [n \in Notes |-> NoteData(n)]
  /\ guides' = <<>>
  /\ overlay' = {}
  /\ last' = [op |-> "mouseup", result |-> NoSnap, frames |-> last.frames,
              held |-> {}, shown |-> Cardinality(overlay)]
  /\ UNCHANGED <<notes, allNotes, currentX, currentY, enabled, selectedNotes,
                 snapEnabled, display, hist, startX>>

\* The toggle without its call of alignmentSystem.setEnabled(snapEnabled).
SnapToggle_engineUntold ==
  /\ snapEnabled' = ~snapEnabled
  /\ guides' = IF snapEnabled THEN <<>> ELSE guides
  /\ overlay' = IF snapEnabled THEN {} ELSE overlay
  /\ last' = [op |-> "snapToggle", result |-> NoSnap, frames |-> last.frames,
              held |-> last.held]
  /\ UNCHANGED <<args, enabled, selectedNotes, isDraggingNote, isDraggingGroup,
                 display, documents, hist, startX>>

\* $('snapToggle').onclick.
SnapToggle ==
  /\ snapEnabled' = ~snapEnabled
  /\ enabled' = ~snapEnabled
  /\ guides' = IF snapEnabled THEN <<>> ELSE guides
  /\ overlay' = IF snapEnabled THEN {} ELSE overlay
  /\ last' = [op |-> "snapToggle", result |-> NoSnap, frames |-> last.frames,
              held |-> last.held]
  /\ UNCHANGED <<args, selectedNotes, isDraggingNote, isDraggingGroup,
                 display, documents, hist, startX>>

\* The eye button of a layer: the note is hidden (display: none, which makes
\* its offsetWidth and offsetHeight 0) or shown again.
ToggleVisibility(n) ==
  /\ ~Dragging
  /\ last.frames < MaxFrames
  /\ display' = [display EXCEPT ![n] = IF @ = "" THEN "none" ELSE ""]
  /\ notes' = [notes EXCEPT
                 ![n].offsetWidth = IF display[n] = "" THEN 0 ELSE OffsetWidth[n],
                 ![n].offsetHeight = IF display[n] = "" THEN 0 ELSE OffsetHeight[n]]
  /\ last' = [op |-> "visibility", result |-> NoSnap, frames |-> last.frames,
              held |-> last.held]
  /\ UNCHANGED <<draggedNote, allNotes, currentX, currentY, enabled, guides,
                 overlay, selectedNotes, isDraggingNote, isDraggingGroup,
                 snapEnabled, documents, hist, startX>>

\* window 'resize' reaches the engine's listener, which blanks the overlay
\* (a resize over a blank overlay changes nothing).
WindowResize ==
  /\ overlay # {}
  /\ overlay' = {}
  /\ last' = [op |-> "resize", result |-> NoSnap, frames |-> last.frames,
              held |-> last.held]
  /\ UNCHANGED <<args, enabled, guides, page>>

DragNext ==
  \/ \E n \in Notes, shiftKey \in BOOLEAN : NoteMouseDown(n, shiftKey)
  \/ HandleMouseDown
  \/ \E dx \in FrameDx, dy \in FrameDy, altKey \in BOOLEAN :
       MouseMove(dx, dy, altKey)
  \/ MouseUp
  \/ SnapToggle
  \/ \E n \in Hideable : ToggleVisibility(n)
  \/ WindowResize

Drag == DragInit /\ [][DragNext]_vars

(***************************************************************************)
(* Vocabulary of the drag properties.  The frame looked at is the last     *)
(* pointer-move: last.dx and last.dy are its pointer deltas in pixels,      *)
(* last.altKey its Alt key, last.called whether calculateSnap was asked,   *)
(* last.result what it returned (the no-op result when it was not asked),  *)
(* last.dragged the note it was asked about.                               *)
(***************************************************************************)
Frame == last.op = "mousemove"

\* In an action formula: this step is a pointer-move frame of a drag.
IsFrame == last'.op = "mousemove" /\ last'.frames = last.frames + 1

Selected == {selectedNotes[i] : i \in 1..Len(selectedNotes)}

(***************************************************************************)
(* C11.  The claim as made: after every pointer-move frame of a drag the   *)
(* overlay shows exactly the guides returned for that frame, so none when  *)
(* the frame's calculateSnap returned none.                                *)
(***************************************************************************)
C11_AsClaimed == Frame => Drawn = Lines(last.result.guides)

(***************************************************************************)
(* C13.  The claim as made: a pointer-move frame with Alt held moves every *)
(* selected note by the raw pointer delta, clears the guides and changes   *)
(* neither this.enabled nor snapEnabled; and the frame after one with Alt  *)
(* held, itself without Alt and with snapping on, asks the engine again.   *)
(***************************************************************************)
MovedBy(n, ddx, ddy) ==
  /\ notes'[n].left = Style(notes[n].left[1] + ddx)
  /\ notes'[n].top = Style(notes[n].top[1] + ddy)

C13_AltFrame ==
  /\ (IsFrame /\ last'.altKey) =>
        /\ \A n \in Selected : MovedBy(n, Px(last'.dx), Px(last'.dy))
        /\ ~last'.called
        /\ overlay' = {}
        /\ guides' = <<>>
        /\ enabled' = enabled
        /\ snapEnabled' = snapEnabled
  /\ (IsFrame /\ Frame /\ last.altKey /\ ~last'.altKey /\ snapEnabled) =>
        /\ last'.called
        /\ last'.result = calculateSnap(last'.dragged, DomOrder,
                                        currentX', currentY')

C13_AsClaimed == [][C13_AltFrame]_vars

(***************************************************************************)
(* C12.  In every state in which no drag is in progress (isDraggingNote    *)
(* and isDraggingGroup both false) the overlay shows no guide; the         *)
(* pointer-up that ends a drag has cleared it.                             *)
(***************************************************************************)
C12_NoGuidesOutsideDrag ==
  (~isDraggingNote /\ ~isDraggingGroup) => (overlay = {} /\ guides = <<>>)

\* A pointer-up has ended a drag whose last frame had left guides on the
\* overlay.
C12_Witness ==
  /\ last.op = "mouseup"
  /\ last.shown > 0
  /\ ~isDraggingNote
  /\ ~isDraggingGroup
  /\ overlay = {}

(***************************************************************************)
(* C14.  The engine's enabled flag equals the page's snapEnabled in every  *)
(* state; toggling snapping off clears the guides; while snapping is off   *)
(* the overlay shows no guide, and a pointer-move frame does not ask the   *)
(* engine and puts every selected note at the position the handler reads   *)
(* for it plus the raw pointer delta, no snap delta added, the other notes *)
(* staying where they are.                                                 *)
(***************************************************************************)
C14_Off ==
  /\ enabled = snapEnabled
  /\ ~snapEnabled => (overlay = {} /\ guides = <<>>)

C14_OffStep ==
  /\ (snapEnabled /\ ~snapEnabled') => (overlay' = {} /\ guides' = <<>>)
  /\ (IsFrame /\ ~snapEnabled) =>
        /\ ~last'.called
        /\ last'.result = NoSnap
        /\ \A n \in Selected :
              /\ notes'[n].left = Style(ParseInt(notes[n].left)[1] + Px(last'.dx))
              /\ notes'[n].top = Style(ParseInt(notes[n].top)[1] + Px(last'.dy))
        /\ \A n \in Notes \ Selected : notes'[n] = notes[n]

C14_SnapToggledOff == [](C14_Off) /\ [][C14_OffStep]_vars

\* With snapping toggled off, a frame has moved the dragged note to a place
\* where an enabled engine would have corrected it on x, and nothing is
\* shown.
C14_Witness ==
  /\ Frame
  /\ ~snapEnabled
  /\ ~enabled
  /\ ~last.altKey
  /\ last.dragged \in Notes
  /\ LET d == last.dragged
         r == Scan(d, DomOrder, notes[d].left[1], notes[d].top[1])
     IN  r.snapped /\ r.deltaX # 0
  /\ overlay = {}

(***************************************************************************)
(* C15.  The claim as made: in every drag frame the source of every guide  *)
(* (and so of every delta) is a note outside the dragged selection.        *)
(***************************************************************************)
C15_AsClaimed ==
  Frame =>
    \A i \in 1..Len(last.result.guides) :
      last.result.guides[i].sourceId \notin Selected

(***************************************************************************)
(* C16.  The claim as made: in a frame that drags several notes together   *)
(* the box calculateSnap tests is the bounding box of the selection, the   *)
(* minimum left and top and the maximum right and bottom over the selected *)
(* notes at their candidate positions (where the handler reads them, plus  *)
(* the pointer delta).                                                     *)
(***************************************************************************)
Max(S) == CHOOSE m \in S : \A k \in S : k <= m

C16_BoundingBox ==
  LET x(n) == ParseInt(notes[n].left)[1] + Px(last'.dx)
      y(n) == ParseInt(notes[n].top)[1] + Px(last'.dy)
  IN  [left   |-> Min({x(n) : n \in Selected}),
       top    |-> Min({y(n) : n \in Selected}),
       right  |-> Max({x(n) + Px(notes[n].offsetWidth) : n \in Selected}),
       bottom |-> Max({y(n) + Px(notes[n].offsetHeight) : n \in Selected})]

C16_BoxTested ==
  (IsFrame /\ last'.called /\ Cardinality(Selected) > 1) =>
     LET db == draggedBounds(last'.dragged, currentX', currentY')
     IN  [left |-> db.left, top |-> db.top,
          right |-> db.right, bottom |-> db.bottom] = C16_BoundingBox

C16_AsClaimed == [][C16_BoxTested]_vars

(***************************************************************************)
(* C17.  The claim as made: in no drag frame does a guide (and so a delta) *)
(* have as its source a note hidden through the layers panel.              *)
(***************************************************************************)
C17_AsClaimed ==
  Frame =>
    \A i \in 1..Len(last.result.guides) :
      display[last.result.guides[i].sourceId] # "none"

(***************************************************************************)
(* Calls of the engine on a canvas where one note's style.left or          *)
(* style.top is no length (parseInt gives NaN).                            *)
(***************************************************************************)
UnparsedInit ==
  /\ \E at \in {"left", "top"} :
       notes = [n \in Notes |->
                  [left |-> IF n = "n3" /\ at = "left" THEN NaN
                            ELSE Style(Px(LoadedAt[n].x)),
                   top |-> IF n = "n3" /\ at = "top" THEN NaN
                           ELSE Style(Px(LoadedAt[n].y)),
                   offsetWidth |-> OffsetWidth[n],
                   offsetHeight |-> OffsetHeight[n]]]
  /\ draggedNote \in {"n1", "n2"}
  /\ allNotes \in {DomOrder, <<"n3", "n1">>}
  /\ currentX \in {Px(x) : x \in 0..MaxCoord}
  /\ currentY \in {Px(y) : y \in 0..MaxCoord}
  /\ enabled = TRUE
  /\ guides = <<>>
  /\ overlay = {}
  /\ last = [op |-> "new", result |-> NoSnap]
  /\ AppInit

Unparsed == UnparsedInit /\ [][Next]_vars

(***************************************************************************)
(* C18.  The claim as made: a candidate whose left or top parses to NaN    *)
(* is the source of no guide, on either axis.                              *)
(***************************************************************************)
C18_AsClaimed ==
  (Called /\ enabled) =>
    \A i \in 1..Len(last.result.guides) :
      LET n == last.result.guides[i].sourceId
      IN  ParseInt(notes[n].left) # NaN /\ ParseInt(notes[n].top) # NaN

(***************************************************************************)
(* C19.  The claim as made: when the press that begins a drag is on a note *)
(* of a selection of several, every frame of the drag moves every note     *)
(* that was selected at the press, all by the displacement of the note     *)
(* pressed.                                                                *)
(***************************************************************************)
Displacement(n) ==
  <<notes'[n].left[1] - notes[n].left[1], notes'[n].top[1] - notes[n].top[1]>>

C19_GroupMoves ==
  (IsFrame /\ isDraggingNote /\ Cardinality(last'.held) > 1) =>
     \A n \in last'.held : Displacement(n) = Displacement(draggedNote)

C19_AsClaimed == [][C19_GroupMoves]_vars

(***************************************************************************)
(* C20.  The claim as made: right after the pointer-up that ends a drag    *)
(* the stored x and y of every note of the document equal the note's       *)
(* style.left and style.top on the canvas.                                 *)
(***************************************************************************)
C20_AsClaimed ==
  last.op = "mouseup" =>
    \A n \in Notes :
      documents[n].x = notes[n].left /\ documents[n].y = notes[n].top

(***************************************************************************)
(* C27.  For every call of calculateSnap, |deltaX| <= snapThreshold and    *)
(* |deltaY| <= snapThreshold: whatever rule matched, edge or centre, the   *)
(* dragged box is moved no further than the threshold from the position    *)
(* asked for.                                                              *)
(***************************************************************************)
C27_DeltaWithinThreshold ==
  Called =>
     /\ Abs(last.result.deltaX) <= Threshold
     /\ Abs(last.result.deltaY) <= Threshold

\* An edge rule has moved the box by exactly snapThreshold on x, and a
\* centre rule by another amount than zero on y.
C27_Witness ==
  /\ Called
  /\ enabled
  /\ Abs(last.result.deltaX) = Threshold
  /\ last.result.deltaY # 0
  /\ \E i \in Candidates :
       /\ Horizontal(last.result) # <<>>
       /\ allNotes[i] = Horizontal(last.result)[1].sourceId
       /\ Min(YWithin(i)) = 5

(***************************************************************************)
(* C25.  What calculateSnap returns is determined by its arguments (the    *)
(* dragged note's size, the position asked for, the candidates in their    *)
(* order) and by this.enabled: it is the same function of them in every    *)
(* state of the engine, whatever this.guides holds and the overlay shows   *)
(* from earlier calls, clearGuides or setEnabled, and a call repeated      *)
(* with the same arguments returns the same result.                        *)
(***************************************************************************)
C25_FunctionOfInputs ==
  Called =>
     last.result = IF enabled
                     THEN Scan(draggedNote, allNotes, currentX, currentY)
                     ELSE NoSnap

C25_Repeated ==
  (Called /\ IsCall) => last'.result = last.result

C25_DeterminedByInputs ==
  [](C25_FunctionOfInputs) /\ [][C25_Repeated]_vars

\* A call that matched nothing was made while the overlay still showed the
\* line of an earlier call on other arguments.
C25_Witness ==
  /\ Called
  /\ enabled
  /\ Candidates # {}
  /\ ~last.result.snapped
  /\ Cardinality(overlay) = 1

(***************************************************************************)
(* C28.  The claim as made: when calculateSnap has returned (deltaX,       *)
(* deltaY) for a position, a call with the same candidates in the same     *)
(* order and the position shifted by that delta returns deltaX = 0 and     *)
(* deltaY = 0.                                                             *)
(***************************************************************************)
Again ==
  Scan(draggedNote, allNotes, currentX + last.result.deltaX,
       currentY + last.result.deltaY)

C28_AsClaimed ==
  (Called /\ enabled) => (Again.deltaX = 0 /\ Again.deltaY = 0)

(***************************************************************************)
(* C28, amended.  At the position shifted by the delta the rule that       *)
(* matched has a difference of 0, so the second call matches on exactly    *)
(* the axes the first one did, and its delta on an axis the first call     *)
(* did not match on is 0.  On an axis that matched, the second call        *)
(* returns the delta 0 and the same guide when the candidate and the rule  *)
(* of the first call are again the first within snapThreshold at the       *)
(* shifted position; when the shift has brought an earlier candidate, or   *)
(* an earlier rule of the same candidate, within snapThreshold, that one   *)
(* is reported instead and its delta need not be 0.                        *)
(***************************************************************************)
\* The rules of candidate position i within the threshold, and the
\* candidate positions with such a rule, at the shifted position.
XWithinLanded(i) ==
  {k \in Rules : XDiffs(Landed, targetBounds(allNotes[i]))[k] <= Threshold}
YWithinLanded(i) ==
  {k \in Rules : YDiffs(Landed, targetBounds(allNotes[i]))[k] <= Threshold}
XMatchingLanded == {i \in Candidates : XWithinLanded(i) # {}}
YMatchingLanded == {i \in Candidates : YWithinLanded(i) # {}}

C28_SecondCall ==
  (Called /\ enabled) =>
     /\ (Vertical(Again) # <<>>) <=> (Vertical(last.result) # <<>>)
     /\ (Horizontal(Again) # <<>>) <=> (Horizontal(last.result) # <<>>)
     /\ Vertical(last.result) = <<>> => Again.deltaX = 0
     /\ Horizontal(last.result) = <<>> => Again.deltaY = 0
     /\ Vertical(last.result) # <<>> =>
          LET i == Min(XMatching)
              k == Min(XWithin(i))
              j == Min(XMatchingLanded)
              m == Min(XWithinLanded(j))
          IN  /\ XDiffs(Landed, targetBounds(allNotes[i]))[k] = 0
              /\ j <= i
              /\ (j = i) => m <= k
              /\ Again.deltaX = XLine(targetBounds(allNotes[j]))[m]
                                  - XOwn(Landed)[m]
              /\ (j = i /\ m = k) =>
                    (Again.deltaX = 0 /\ Vertical(Again) = Vertical(last.result))
     /\ Horizontal(last.result) # <<>> =>
          LET i == Min(YMatching)
              k == Min(YWithin(i))
              j == Min(YMatchingLanded)
              m == Min(YWithinLanded(j))
          IN  /\ YDiffs(Landed, targetBounds(allNotes[i]))[k] = 0
              /\ j <= i
              /\ (j = i) => m <= k
              /\ Again.deltaY = YLine(targetBounds(allNotes[j]))[m]
                                  - YOwn(Landed)[m]
              /\ (j = i /\ m = k) =>
                    (Again.deltaY = 0
                     /\ Horizontal(Again) = Horizontal(last.result))

\* A call has moved the box on both axes, and at the shifted position the
\* second call names the same two guides and moves it no further.
C28_Witness ==
  /\ Called
  /\ enabled
  /\ last.result.deltaX # 0
  /\ last.result.deltaY # 0
  /\ Again.deltaX = 0
  /\ Again.deltaY = 0
  /\ Again.guides = last.result.guides

(***************************************************************************)
(* C29.  The claim as made: a pointer-move frame of a drag leaves every    *)
(* note that is not selected where it is, and displaces every selected     *)
(* note by the same amount, the pointer delta plus the snap delta of the   *)
(* frame, so that the offsets between selected notes are kept.             *)
(***************************************************************************)
C29_FrameEffect ==
  IsFrame =>
     /\ \A n \in Notes \ Selected : notes'[n] = notes[n]
     /\ \A n \in Selected :
          MovedBy(n, Px(last'.dx) + last'.result.deltaX,
                  Px(last'.dy) + last'.result.deltaY)

C29_AsClaimed == [][C29_FrameEffect]_vars

(***************************************************************************)
(* Slow drags: a single note is pressed and dragged with the pointer       *)
(* moving a few pixels per frame, no more than snapThreshold, and          *)
(* released.                                                               *)
(***************************************************************************)
\* Pointer deltas of one frame of a slow drag, in whole pixels.
SlowDx == {-3, 2}

\* Pointer-move frames of the slow drags looked at.
MaxSlowFrames == 3

SlowMouseMove(dx) ==
  /\ last.frames < MaxSlowFrames
  /\ OnMouseMove(dx, 0, FALSE)

SlowNext ==
  \/ \E n \in Notes : NoteMouseDown(n, FALSE)
  \/ \E dx \in SlowDx : SlowMouseMove(dx)
  \/ MouseUp

SlowDrag == DragInit /\ [][SlowNext]_vars

(***************************************************************************)
(* C26.  The claim as made: snap corrections do not add up over the frames *)
(* of a drag.  After every frame of a drag of a single note with snapping  *)
(* on, the note's left is within snapThreshold of its left at the press    *)
(* plus the pointer's horizontal displacement since (which is startX, the  *)
(* press being on the note's left edge), and its top within snapThreshold  *)
(* of its top at the press (which is the top last saved; the pointer does  *)
(* not move vertically).                                                   *)
(***************************************************************************)
C26_AsClaimed ==
  (Frame /\ isDraggingNote /\ snapEnabled /\ Selected = {draggedNote}) =>
     /\ Abs(notes[draggedNote].left[1] - startX) <= Threshold
     /\ Abs(notes[draggedNote].top[1] - documents[draggedNote].y[1])
          <= Threshold

(***************************************************************************)
(* Documents, auto-save and undo history (app.ts).  A note element of the  *)
(* canvas is [left, text], a saved note [x, text] with x = parseInt(left); *)
(* top and y go the same way as left and x and are left out.  The text of  *)
(* a note is "" until something is typed into it.                          *)
(***************************************************************************)

\* const MAX_HISTORY = 50
MAX_HISTORY == 50

\* The ids a document can have.
Docs == {"d1", "d2"}

\* Note elements on the canvas at a time.
MaxNotes == 2

\* Calls of saveToHistory looked at, after those of Recorded.
MaxRecorded == 2

\* Calls of undo and redo looked at.
MaxMoves == 2

\* e.clientX - canvas.offsetLeft of a click on the canvas, in pixels.
ClickAt == {5}

\* const offset = 20 (duplicate), const offset = 30 (paste)
DuplicateOffset == 20
PasteOffset == 30

\* What localStorage holds as 'anywhereClipboard': one note copied earlier.
Clipboards == {<<[x |-> <<Px(5)>>, text |-> "t"]>>}

\* The variables no handler of this part writes.
still == <<args, enabled, guides, overlay, isDraggingNote, isDraggingGroup,
           snapEnabled, display, startX>>

\* notes.map(note => ({ x: parseInt(note.style.left), text: ... }))
SavedNotes(c) ==
  [i \in 1..Len(c) |-> [x |-> ParseInt(c[i].left), text |-> c[i].text]]

\* loadDocument: one element per saved note, style.left = noteData.x + 'px'.
LoadedNotes(ns) ==
  [i \in 1..Len(ns) |-> [left |-> Style(ns[i].x[1]), text |-> ns[i].text]]

RECURSIVE Remaining(_, _, _)
\* The elements of c from position i on that are not selected.
Remaining(c, sel, i) ==
  IF i > Len(c) THEN <<>>
  ELSE (IF InSet(i, sel) THEN <<>> ELSE <<c[i]>>) \o Remaining(c, sel, i + 1)

\* const currentState = { docId, notes: deep copy of documents[docId].notes }
currentState ==
  [docId |-> currentDocId, notes |-> documents[currentDocId]]

\* saveToHistory that counts historyIndex up also when the oldest state is
\* shifted out.
saveToHistory_alwaysCounts ==
  LET kept == IF historyIndex < Len(documentHistory) - 1
                THEN SubSeq(documentHistory, 1, historyIndex + 1)
                ELSE documentHistory
      pushed == Append(kept, currentState)
  IN  IF Len(pushed) > MAX_HISTORY
        THEN [documentHistory |-> Tail(pushed), historyIndex |-> historyIndex + 1]
        ELSE [documentHistory |-> pushed, historyIndex |-> historyIndex + 1]

\* saveToHistory(): the new values of documentHistory and historyIndex.
saveToHistory ==
  LET kept == IF historyIndex < Len(documentHistory) - 1
                THEN SubSeq(documentHistory, 1, historyIndex + 1)
                ELSE documentHistory
      pushed == Append(kept, currentState)
  IN  IF Len(pushed) > MAX_HISTORY
        THEN [documentHistory |-> Tail(pushed), historyIndex |-> historyIndex]
        ELSE [documentHistory |-> pushed, historyIndex |-> historyIndex + 1]

\* The session so far: nothing recorded yet, or MAX_HISTORY - 1 states
\* recorded of the document while nothing was saved for it (Ctrl+V kept
\* pressed, then everything selected and deleted, faster than the save
\* delay).
Recorded ==
  {<<>>, [i \in 1..(MAX_HISTORY - 1) |-> [docId |-> "d1", notes |-> <<>>]]}

(***************************************************************************)
(* last, in this part: op is the handler that ran and ok what undo or redo *)
(* returned; moves counts the calls of undo and redo, and was is the       *)
(* canvas before the latest of them; recorded counts the calls of          *)
(* saveToHistory and shifted says that the latest was made with 50 states  *)
(* held and none undone; before is the canvas as it was before the latest  *)
(* handler that recorded history; madeIn and made are the document and the *)
(* canvas of the latest call of saveCurrentDocument() whose save is        *)
(* pending ("none" when there is none, or when an undo or redo has         *)
(* replaced the canvas since).                                             *)
(***************************************************************************)
HistoryInit ==
  /\ notes = <<>>
  /\ draggedNote = "null"
  /\ allNotes = <<>>
  /\ currentX = 0
  /\ currentY = 0
  /\ enabled = TRUE
  /\ guides = <<>>
  /\ overlay = {}
  /\ selectedNotes = <<>>
  /\ isDraggingNote = FALSE
  /\ isDraggingGroup = FALSE
  /\ snapEnabled = TRUE
  /\ display = <<>>
  /\ startX = 0
  /\ documents = [d \in {"d1"} |-> <<>>]
  /\ currentDocId = "d1"
  /\ canvas = <<>>
  /\ documentHistory \in Recorded
  /\ historyIndex = Len(documentHistory) - 1
  /\ timeout = FALSE
  /\ focus = 0
  /\ last = [op |-> "load", ok |-> TRUE, was |-> <<>>, moves |-> 0,
             recorded |-> 0, shifted |-> FALSE, before |-> <<>>,
             madeIn |-> "none", made |-> <<>>]

Did(op, ok) == [last EXCEPT !.op = op, !.ok = ok]

\* undo() or redo() was called.
Moved(op, ok) ==
  [Did(op, ok) EXCEPT !.moves = @ + 1, !.was = canvas]

\* A handler that calls saveToHistory() before it changes the canvas.
Records(op) ==
  [Did(op, TRUE) EXCEPT !.recorded = @ + 1, !.before = canvas,
                        !.shifted = Len(documentHistory) = MAX_HISTORY
                                    /\ historyIndex = MAX_HISTORY - 1]

\* canvas 'click' on the empty canvas in default mode: the state is recorded
\* and an empty note is created and focused.
ClickCanvas(x) ==
  /\ focus = 0
  /\ Len(canvas) < MaxNotes
  /\ last.recorded < MaxRecorded
  /\ selectedNotes' = <<>>
  /\ documentHistory' = saveToHistory.documentHistory
  /\ historyIndex' = saveToHistory.historyIndex
  /\ canvas' = Append(canvas, [left |-> Style(Px(x)), text |-> ""])
  /\ focus' = Len(canvas) + 1
  /\ last' = Records("click")
  /\ UNCHANGED <<currentDocId, documents, timeout, still>>

\* note 'input': something is typed into the focused note.
Input ==
  /\ focus # 0
  /\ canvas[focus].text = ""
  /\ canvas' = [canvas EXCEPT ![focus].text = "t"]
  /\ timeout' = TRUE
  /\ last' = [Did("input", TRUE) EXCEPT !.madeIn = currentDocId,
                                        !.made = canvas']
  /\ UNCHANGED <<currentDocId, documents, documentHistory, historyIndex,
                 focus, selectedNotes, still>>

\* note 'blur': a note left empty is removed.
Blur ==
  /\ focus # 0
  /\ canvas' = IF canvas[focus].text = ""
                 THEN Remaining(canvas, <<focus>>, 1) ELSE canvas
  /\ focus' = 0
  /\ timeout' = TRUE
  /\ last' = [Did("blur", TRUE) EXCEPT !.madeIn = currentDocId,
                                       !.made = canvas']
  /\ UNCHANGED <<currentDocId, documents, documentHistory, historyIndex,
                 selectedNotes, still>>

\* Ctrl+A.
SelectAll ==
  /\ focus = 0
  /\ canvas # <<>>
  /\ selectedNotes # [i \in 1..Len(canvas) |-> i]
  /\ selectedNotes' = [i \in 1..Len(canvas) |-> i]
  /\ last' = Did("selectAll", TRUE)
  /\ UNCHANGED <<documents, hist, still>>

\* Delete or Backspace with notes selected.
DeleteSelected ==
  /\ focus = 0
  /\ selectedNotes # <<>>
  /\ last.recorded < MaxRecorded
  /\ documentHistory' = saveToHistory.documentHistory
  /\ historyIndex' = saveToHistory.historyIndex
  /\ canvas' = Remaining(canvas, selectedNotes, 1)
  /\ selectedNotes' = <<>>
  /\ timeout' = TRUE
  /\ last' = [Records("delete") EXCEPT !.madeIn = currentDocId,
                                       !.made = canvas']
  /\ UNCHANGED <<currentDocId, documents, focus, still>>

\* Ctrl+D with notes selected: every selected note is cloned, 20 px off.
Duplicate ==
  /\ focus = 0
  /\ selectedNotes # <<>>
  /\ Len(canvas) + Len(selectedNotes) <= MaxNotes
  /\ last.recorded < MaxRecorded
  /\ documentHistory' = saveToHistory.documentHistory
  /\ historyIndex' = saveToHistory.historyIndex
  /\ canvas' = canvas \o
       [i \in 1..Len(selectedNotes) |->
          [canvas[selectedNotes[i]] EXCEPT
             !.left = Style(ParseInt(@)[1] + Px(DuplicateOffset))]]
  /\ timeout' = TRUE
  /\ last' = [Records("duplicate") EXCEPT !.madeIn = currentDocId,
                                          !.made = canvas']
  /\ UNCHANGED <<currentDocId, documents, focus, selectedNotes, still>>

\* Ctrl+V: the notes of the clipboard are created 30 px off and selected.
Paste(clip) ==
  /\ focus = 0
  /\ Len(canvas) + Len(clip) <= MaxNotes
  /\ last.recorded < MaxRecorded
  /\ documentHistory' = saveToHistory.documentHistory
  /\ historyIndex' = saveToHistory.historyIndex
  /\ canvas' = canvas \o
       [i \in 1..Len(clip) |->
          [left |-> Style(clip[i].x[1] + Px(PasteOffset)),
           text |-> clip[i].text]]
  /\ selectedNotes' = [i \in 1..Len(clip) |-> Len(canvas) + i]
  /\ timeout' = TRUE
  /\ last' = [Records("paste") EXCEPT !.madeIn = currentDocId,
                                      !.made = canvas']
  /\ UNCHANGED <<currentDocId, documents, focus, still>>

\* The timer of debounce fires: saveCurrentDocumentImmediate().
SaveFires ==
  /\ timeout
  /\ timeout' = FALSE
  /\ documents' = [documents EXCEPT ![currentDocId] = SavedNotes(canvas)]
  /\ last' = [Did("save", TRUE) EXCEPT !.madeIn = "none"]
  /\ UNCHANGED <<currentDocId, canvas, documentHistory, historyIndex, focus,
                 selectedNotes, still>>

\* Ctrl+Z: undo().
Undo ==
  /\ focus = 0
  /\ last.moves < MaxMoves
  /\ IF historyIndex <= 0
       THEN /\ last' = Moved("undo", FALSE)
            /\ UNCHANGED <<historyIndex, documents, canvas, selectedNotes>>
       ELSE LET state == documentHistory[historyIndex]
            IN  /\ historyIndex' = historyIndex - 1
                /\ IF state.docId = currentDocId
                     THEN /\ documents' =
                               [documents EXCEPT ![currentDocId] = state.notes]
                          /\ canvas' = LoadedNotes(state.notes)
                          /\ selectedNotes' = <<>>
                          /\ last' = [Moved("undo", TRUE) EXCEPT
                                        !.madeIn = "none"]
                     ELSE /\ last' = Moved("undo", FALSE)
                          /\ UNCHANGED <<documents, canvas, selectedNotes>>
  /\ UNCHANGED <<currentDocId, documentHistory, timeout, focus, still>>

\* Ctrl+Shift+Z: redo().
Redo ==
  /\ focus = 0
  /\ last.moves < MaxMoves
  /\ IF historyIndex >= Len(documentHistory) - 1
       THEN /\ last' = Moved("redo", FALSE)
            /\ UNCHANGED <<historyIndex, documents, canvas, selectedNotes>>
       ELSE LET state == documentHistory[historyIndex + 2]
            IN  /\ historyIndex' = historyIndex + 1
                /\ IF state.docId = currentDocId
                     THEN /\ documents' =
                               [documents EXCEPT ![currentDocId] = state.notes]
                          /\ canvas' = LoadedNotes(state.notes)
                          /\ selectedNotes' = <<>>
                          /\ last' = [Moved("redo", TRUE) EXCEPT
                                        !.madeIn = "none"]
                     ELSE /\ last' = Moved("redo", FALSE)
                          /\ UNCHANGED <<documents, canvas, selectedNotes>>
  /\ UNCHANGED <<currentDocId, documentHistory, timeout, focus, still>>

\* A click on a document of the sidebar: loadDocument(id).
LoadDocument(id) ==
  /\ focus = 0
  /\ id \in DOMAIN documents
  /\ currentDocId' = id
  /\ canvas' = LoadedNotes(documents[id])
  /\ selectedNotes' = <<>>
  /\ last' = Did("open", TRUE)
  /\ UNCHANGED <<documents, documentHistory, historyIndex, timeout, focus,
                 still>>

\* Ctrl+N: createNewDocument().
CreateNewDocument(id) ==
  /\ focus = 0
  /\ id \notin DOMAIN documents
  /\ documents' = [d \in DOMAIN documents \cup {id} |->
                     IF d = id THEN <<>> ELSE documents[d]]
  /\ currentDocId' = id
  /\ canvas' = <<>>
  /\ selectedNotes' = <<>>
  /\ last' = Did("new", TRUE)
  /\ UNCHANGED <<documentHistory, historyIndex, timeout, focus, still>>

HistoryNext ==
  \/ \E x \in ClickAt : ClickCanvas(x)
  \/ Input
  \/ Blur
  \/ SelectAll
  \/ DeleteSelected
  \/ Duplicate
  \/ \E clip \in Clipboards : Paste(clip)
  \/ SaveFires
  \/ Undo
  \/ Redo
  \/ \E id \in Docs : LoadDocument(id)
  \/ \E id \in Docs : CreateNewDocument(id)

History == HistoryInit /\ [][HistoryNext]_vars

(***************************************************************************)
(* Claims about the history.                                               *)
(***************************************************************************)

\* The step is a handler that called saveToHistory().
IsRecord == last'.recorded = last.recorded + 1

IsUndo == last'.moves = last.moves + 1 /\ last'.op = "undo"

IsRedo == last'.moves = last.moves + 1 /\ last'.op = "redo"

C21_Bounds ==
  /\ Len(documentHistory) <= MAX_HISTORY
  /\ -1 <= historyIndex
  /\ historyIndex <= Len(documentHistory) - 1

C21_DiscardsOldest ==
  (IsRecord /\ Len(documentHistory) = MAX_HISTORY)
    => documentHistory' = Append(Tail(documentHistory), currentState)

\* C21 as stated: recording a state when 50 are held discards the oldest
\* one.
C21_AsClaimed == [][C21_DiscardsOldest]_vars

C21_Recording ==
  IsRecord =>
    /\ historyIndex' = Len(documentHistory') - 1
    /\ documentHistory' =
         IF historyIndex = MAX_HISTORY - 1
           THEN Append(Tail(documentHistory), currentState)
           ELSE Append(SubSeq(documentHistory, 1, historyIndex + 1),
                       currentState)

\* C21: the history holds at most 50 states and -1 <= historyIndex <=
\* length - 1 at all times; right after saveToHistory historyIndex points
\* at the last state, which is the state just recorded; recording discards
\* the oldest state when historyIndex is 49 (50 states held, none of them
\* undone), and otherwise keeps the states up to historyIndex and discards
\* the undone ones after it.
C21_HistoryBounded == [](C21_Bounds) /\ [][C21_Recording]_vars

\* C21 happens: 50 states were held, the latest recording dropped the oldest,
\* and 50 are held again with historyIndex at the last.
C21_Witness ==
  /\ last.shifted
  /\ last.op \in {"click", "delete", "duplicate", "paste"}
  /\ Len(documentHistory) = MAX_HISTORY
  /\ historyIndex = MAX_HISTORY - 1
  /\ documentHistory[MAX_HISTORY].notes # <<>>

\* The handlers that record history.
Recording == {"click", "delete", "duplicate", "paste"}

C22_UndoRestores ==
  (IsUndo /\ last.op \in Recording) => (last'.ok /\ canvas' = last.before)

\* C22 as stated: an undo right after an operation that records history
\* succeeds and leaves the notes of the document as they were immediately
\* before that operation, for the first recorded operation too.
C22_AsClaimed == [][C22_UndoRestores]_vars

C23_RedoRestores ==
  (last.op = "undo" /\ last.ok /\ IsRedo) => canvas' = last.was

\* C23 as stated: a redo right after a successful undo leaves the notes of
\* the document as they were immediately before that undo.
C23_AsClaimed == [][C23_RedoRestores]_vars

\* The timer set by debounce fires after SAVE_DEBOUNCE_DELAY: a pending save
\* is not put off for ever.
Saving == HistoryInit /\ [][HistoryNext]_vars /\ WF_vars(SaveFires)

\* The step is the pending save being carried out.
IsSave == timeout /\ ~timeout' /\ last'.op = "save"

C24_SavedWhereMade ==
  (IsSave /\ last.madeIn # "none" /\ last.madeIn # currentDocId) =>
    documents'[last.madeIn] = SavedNotes(last.made)

\* C24 as stated: a pending save is carried out in the end, and when the
\* change it was asked for was made in a document other than the one open
\* by then, it writes the notes as that change left them to the document in
\* which the change was made.
C24_AsClaimed == (timeout ~> ~timeout) /\ [][C24_SavedWhereMade]_vars

C30_NothingChanged ==
  ((IsUndo \/ IsRedo) /\ ~last'.ok) =>
    /\ historyIndex' = historyIndex
    /\ documentHistory' = documentHistory
    /\ canvas' = canvas
    /\ documents' = documents

\* C30 as stated: a call of undo or redo that returns false leaves
\* historyIndex, the history and the notes of the document, on the canvas
\* and as saved, as they were.
C30_AsClaimed == [][C30_NothingChanged]_vars

====
